---- MODULE Spec2Model ----
(***************************************************************************)
(* FileTransfer (src/src/upload/file-transfer.ts): chunk planning, the     *)
(* scheduler loop of processChunks, the per-chunk retry loop and the       *)
(* assembly of a download.                                                 *)
(*                                                                         *)
(* Execution model.  The class runs on a JavaScript event loop:            *)
(*  - code between two awaits runs to completion (the scheduler's pc       *)
(*    "loop"/"launch" steps are never interleaved with anything else);     *)
(*  - promise reactions (the .then/.catch callbacks, the continuation of   *)
(*    an await on a settled promise) are microtasks;                       *)
(*  - the completion of fetch() and of setTimeout() is delivered by the    *)
(*    event loop (a macrotask), and the event loop delivers a macrotask    *)
(*    only when the microtask queue is empty.                              *)
(***************************************************************************)
EXTENDS Integers, Sequences, FiniteSets, TLC

\* ---------------------------------------------------------------- bounds
MaxSize == 5
MaxChunkSize == 2
MaxConcurrent == 2
MaxRetryAttempts == 3
\* chunk sizes range over -MaxNegChunkSize .. MaxChunkSize
MaxNegChunkSize == 1
\* iterations of a planning loop that does not end which are followed
MaxPlanSteps == 3
\* Date.now() is not monotonic: a reading lies between startTime - MaxClockSkew
\* and startTime + MaxElapsed (milliseconds)
MaxClockSkew == 1
MaxElapsed == 2
\* file sizes and retryAttempts of the transfers observed through getProgress
MaxProgressSize == 3

MaxProgressRetries == 2
\* sockets a WebSocketClient creates, messages passed to send(), and the
\* largest maxReconnectAttempts configured
MaxSockets == 2
MaxMessages == 2
MaxMaxReconnectAttempts == 1
\* EventSources an SSEClient creates, and the largest maxReconnectAttempts
MaxSources == 3
MaxSseReconnectAttempts == 2

\* RequestMocker: largest finite `times`, mocks registered, requests made
MaxTimes == 2

MaxMocks == 2

MaxRequests == 3

\* CircuitBreaker: actions admitted by execute(), and the largest
\* failureThreshold and halfOpenRequests configured
MaxExecutes == 4

MaxFailureThreshold == 2

MaxHalfOpenRequests == 2

\* RequestQueue: add() calls, largest maxConcurrent and largest priority
MaxAdds == 4

MaxMaxConcurrent == 2

MaxPriority == 1

\* RequestThrottler: execute() calls, largest burstSize and queueSize, and the
\* last reading of the clock (in timer periods of 100 ms)
MaxThrottled == 3

MaxBurstSize == 2

MaxQueueSize == 2

MaxClock == 3

VARIABLES
  fileSize,          \* this.file.size
  config,            \* this.config (fixed by the constructor)
  chunks,            \* this.chunks
  activeChunks,      \* this.activeChunks   (set of ids)
  completedChunks,   \* this.completedChunks
  failedChunks,      \* this.failedChunks
  bytesTransferred,  \* this.bytesTransferred
  op,                \* the call in progress or last made: none/upload/download
  pc,                \* position of processChunks / state of the call's promise
  results,           \* processChunks' local array `results`
  activePromises,    \* processChunks' local list `activePromises`
  worker,            \* per planned chunk: state of its processChunkWithRetry promise chain
  returned,          \* bytes of the Blob download() resolved with
  thrown,            \* the error the call rejected with
  launchLog,         \* history: indices of the chunks launched by this call, in order
  job,               \* per planned chunk: attempts started and failed (history), the
                     \* error its promise rejected with, the value it resolved with
  handled,           \* history: the workers whose settlement a scheduler round has seen
  headers,           \* the header map the caller passes to upload()/download()
  startTime,         \* this.startTime
  now,               \* the value Date.now() returned to the last getProgress()
  progress           \* the TransferProgress the last getProgress() returned

\* WebSocketClient (src/unnamed/part_021)
VARIABLES
  ws,                \* this.ws: 0 (null) or the number of a socket
  sockets,           \* every WebSocket created so far: readyState, listeners, events due
  wsConfig,          \* this.config: maxReconnectAttempts, autoReconnect
  wsState,           \* this.state: isConnected, isReconnecting, reconnectAttempts
  wsReconnectTimer,  \* the timeout of this.reconnectTimer is pending
  messageQueue,      \* this.messageQueue
  wire,              \* history: the ws.send() calls made, in order
  submitted          \* history: number of messages passed to send()

wsVars == <<ws, sockets, wsConfig, wsState, wsReconnectTimer, messageQueue, wire,
            submitted>>

\* SSEClient (src/unnamed/part_010)
VARIABLES
  eventSource,       \* this.eventSource: 0 (null) or the number of an EventSource
  sources,           \* every EventSource created so far: readyState, listeners
  sseConfig,         \* this.config: maxReconnectAttempts, autoReconnect
  sseState,          \* this.state: isConnected, isReconnecting, reconnectAttempts
  sseReconnectTimer  \* the timeout of this.reconnectTimer is pending

sseVars == <<eventSource, sources, sseConfig, sseState, sseReconnectTimer>>

\* RequestMocker (src/src/mock/request-mocker.ts)
VARIABLES
  mocks,             \* this.mocks: for each method the list of registered mocks
  matchedRequests,   \* this.matchedRequests
  unmatchedRequests, \* this.unmatchedRequests
  registered,        \* history: the `times` each mock() call was made with
  served,            \* history: per mock, the requests it has answered
  outcome            \* history: how the last mockRequest() ended

mockVars == <<mocks, matchedRequests, unmatchedRequests, registered, served,
              outcome>>

\* CircuitBreaker (src/src/circuit-breaker/circuit-breaker.ts)
VARIABLES
  breakerConfig,     \* failureThreshold, maxHalfOpenRequests
  circuitState,      \* this.state
  failures,          \* this.failures
  lastFailure,       \* this.lastFailure is not null
  resetTimeout,      \* this.resetTimeout: 0 (null) or the number of a timer
  halfOpenRequests,  \* this.halfOpenRequests
  totalRequests,     \* this.totalRequests
  successfulRequests, \* this.successfulRequests
  failedRequests,    \* this.failedRequests
  resetTimers,       \* the timers of trip() that are pending
  trips,             \* history: number of timers trip() has started
  inFlight,          \* actions invoked by execute() and not yet settled
  admitted,          \* history: actions invoked since the state became half-open
  executed           \* history: how the last execute() call began

breakerVars == <<breakerConfig, circuitState, failures, lastFailure, resetTimeout,
                 halfOpenRequests, totalRequests, successfulRequests,
                 failedRequests, resetTimers, trips, inFlight, admitted,
                 executed>>

\* RequestQueue (src/src/queue/request-queue.ts)
VARIABLES
  maxConcurrent,     \* this.maxConcurrent
  requestQueue,      \* this.queue: the items, as [id, priority]
  running,           \* this.running
  items              \* history: where the process() of each add() call stands

queueVars == <<maxConcurrent, requestQueue, running, items>>

\* RequestThrottler (src/src/throttle/request-throttler.ts)
VARIABLES
  throttleConfig,    \* requestsPerSecond, burstSize, queueSize
  bucket,            \* this.bucket: tokens (in token parts) and lastRefill
  throttled,         \* this.queue: the queued requests
  droppedRequests,   \* this.droppedRequests
  totalProcessed,    \* this.totalProcessed
  clock,             \* Date.now(), in periods of 100 ms
  processTimers,     \* the pending timeouts of processQueue: when each is due
  requests           \* history: per execute() call its status and tokens taken

throttleVars == <<throttleConfig, bucket, throttled, droppedRequests,
                  totalProcessed, clock, processTimers, requests>>

\* the classes that admit and order requests
controlVars == <<breakerVars, queueVars, throttleVars>>

\* the other classes of the library
outside == <<wsVars, sseVars, mockVars, controlVars>>

\* what the transfer's scheduler and workers never write
others == <<headers, startTime, now, progress, outside>>

transferVars == <<fileSize, config, chunks, activeChunks, completedChunks,
                  failedChunks, bytesTransferred, op, pc, results, activePromises,
                  worker, returned, thrown, launchLog, job, handled>>

vars == <<transferVars, others>>

\* ------------------------------------------------------------ data values
\* The bucket holds fractions of a token: tokens are counted in parts of
\* 1/TokenParts, and time in the periods of the 100 ms timer.
TokenParts == 2

TicksPerSecond == 10

Min(a, b) == IF a < b THEN a ELSE b

\* The payload: the byte at offset o is modelled by the number o, so that every
\* position of the payload is distinguishable.
SourceBytes(from, to) == [i \in 1..(to - from) |-> from + i - 1]

\* String(undefined) as character codes: what the Blob constructor appends for
\* a part that is undefined (an array hole reads as undefined).
UndefinedText == <<117, 110, 100, 101, 102, 105, 110, 101, 100>>

Hole == [kind |-> "hole", bytes |-> <<>>]

UndefinedValue == [kind |-> "undefined", bytes |-> <<>>]

ArrayBufferOf(b) == [kind |-> "data", bytes |-> b]

NoError == [kind |-> "none", count |-> 0]

\* chunk.hash before anything assigned it (undefined)
NoHash == <<>>

\* crypto.subtle.digest('SHA-256', .) as hex: a collision-free function of the bytes
calculateHash(data) == <<"sha256">> \o data

\* a body that differs from the requested bytes in every position
Corrupt(b) == [i \in 1..Len(b) |-> b[i] + 50]

NoReason == [kind |-> "none", attempt |-> 0]

\* getProgress() not called yet
NoProgress == [kind |-> "none"]

\* MockMethod (two of its values)
Methods == {"GET", "POST"}

\* mockRequest() not called yet
NoOutcome == [kind |-> "none", mock |-> 0]

\* headers = {} : the default of upload()/download()
NoHeaders == <<>>

NewJob ==
  [started |-> 0, failed |-> 0, error |-> NoReason, value |-> Hole,
   request |-> NoHeaders]

\* ------------------------------------------------------------ ChunkPlanner
ChunkId_SizeOnly(start, end) == <<"chunk", end - start>>

\* `chunk-${start}-${end}`
ChunkId(start, end) == <<"chunk", start, end>>

ChunkEnd_NoClamp(start, totalSize, chunkSize) == start + chunkSize

ChunkEnd(start, totalSize, chunkSize) == Min(start + chunkSize, totalSize)

\* Math.floor(start / chunkSize); a division by zero gives Infinity or NaN
ChunkIndex(start, chunkSize) ==
  IF chunkSize > 0 THEN start \div chunkSize
  ELSE IF chunkSize < 0 THEN (0 - start) \div (0 - chunkSize)
  ELSE IF start = 0 THEN "NaN"
  ELSE "Infinity"

MakeChunk(start, totalSize, chunkSize) ==
  LET end == ChunkEnd(start, totalSize, chunkSize) IN
  [id |-> ChunkId(start, end), index |-> ChunkIndex(start, chunkSize),
   start |-> start, end |-> end, size |-> end - start, retries |-> 0,
   hash |-> NoHash]

PlanContinues_Inclusive(start, totalSize) == start <= totalSize

\* the for loop's condition
PlanContinues(start, totalSize) == start < totalSize

\* the loop ends only if start grows, or if it never runs
PlanTerminates ==
  config.chunkSize > 0 \/ ~PlanContinues(config.resumePosition, fileSize)

RECURSIVE PlanFrom(_, _, _)
PlanFrom(start, totalSize, chunkSize) ==
  IF PlanContinues(start, totalSize)
  THEN <<MakeChunk(start, totalSize, chunkSize)>>
         \o PlanFrom(start + chunkSize, totalSize, chunkSize)
  ELSE <<>>

ResumePosition == config.resumePosition

initializeChunks == PlanFrom(ResumePosition, fileSize, config.chunkSize)

\* ------------------------------------------------------- scheduler helpers
IsUntracked_ForgetsFailed(chunk) ==
  /\ chunk.id \notin activeChunks
  /\ chunk.id \notin completedChunks

IsUntracked(chunk) ==
  /\ chunk.id \notin activeChunks
  /\ chunk.id \notin completedChunks
  /\ chunk.id \notin failedChunks

hasIncompleteChunks_CountsActive ==
  Cardinality(completedChunks) + Cardinality(failedChunks)
    + Cardinality(activeChunks) < Len(chunks)

hasIncompleteChunks ==
  Cardinality(completedChunks) + Cardinality(failedChunks) < Len(chunks)

hasAvailableChunks == \E k \in 1..Len(chunks) : IsUntracked(chunks[k])

getNextChunk_Last ==
  IF hasAvailableChunks
  THEN CHOOSE k \in 1..Len(chunks) :
         /\ IsUntracked(chunks[k])
         /\ \A j \in (k + 1)..Len(chunks) : ~IsUntracked(chunks[j])
  ELSE 0

\* Array.prototype.find: the first element satisfying the predicate (0: undefined)
getNextChunk ==
  IF hasAvailableChunks
  THEN CHOOSE k \in 1..Len(chunks) :
         /\ IsUntracked(chunks[k])
         /\ \A j \in 1..(k - 1) : ~IsUntracked(chunks[j])
  ELSE 0

HasBudget_OffByOne == Cardinality(activeChunks) <= config.concurrentChunks

HasBudget == Cardinality(activeChunks) < config.concurrentChunks

\* results[i] = v on a JavaScript array: writing past the end grows the array
\* and leaves holes in between.
ArraySet(arr, i, v) ==
  IF i + 1 <= Len(arr)
  THEN [arr EXCEPT ![i + 1] = v]
  ELSE arr \o [j \in 1..(i - Len(arr)) |-> Hole] \o <<v>>

NewArray(n) == [j \in 1..n |-> Hole]

\* The callback of activePromises.filter returns a Promise object (the result
\* of .then), and an object is truthy: every element is kept.
FilterCallbackTruthy(p) == TRUE

FilterPromises(ps) == SelectSeq(ps, FilterCallbackTruthy)

\* new Blob(parts): the parts' bytes in array order; a part that is not a
\* buffer is converted to a string.
PartBytes(part) == IF part.kind = "data" THEN part.bytes ELSE UndefinedText

RECURSIVE BlobOf(_)
BlobOf(parts) ==
  IF parts = <<>> THEN <<>> ELSE PartBytes(Head(parts)) \o BlobOf(Tail(parts))

\* ---------------------------------------------------------------- transport
RangeHeader(chunk) == [first |-> chunk.start, last |-> chunk.end - 1]

\* { A: a, ...extra } : a key of the spread object replaces the key written
\* before it
Spread(own, extra) == extra @@ own

\* uploadChunk: headers of the POST (X-Chunk-Index, X-Chunk-Total, ...headers)
UploadHeaders(chunk) ==
  Spread(("X-Chunk-Index" :> chunk.index) @@ ("X-Chunk-Total" :> Len(chunks)),
         headers)

\* downloadChunk: headers of the GET (Range, ...headers)
DownloadHeaders(chunk) == Spread("Range" :> RangeHeader(chunk), headers)

\* the header map of the fetch() an attempt makes
FetchHeaders(chunk) ==
  IF op = "download" THEN DownloadHeaders(chunk) ELSE UploadHeaders(chunk)

\* A server honouring the range request: bytes first..last inclusive.
RangeResponse(h) == SourceBytes(h.first, h.last + 1)

\* what processChunk resolves with when the transport delivers the range intact
ChunkResult(chunk) ==
  IF op = "download" THEN ArrayBufferOf(RangeResponse(RangeHeader(chunk)))
  ELSE UndefinedValue

\* the bodies a successful response may carry: the requested bytes, or (download)
\* a body damaged on the way
Responses(chunk) ==
  IF op = "download"
  THEN {ChunkResult(chunk), ArrayBufferOf(Corrupt(RangeResponse(RangeHeader(chunk))))}
  ELSE {ChunkResult(chunk)}

\* downloadChunk: if (validateHash) { hash = ...; if (chunk.hash && hash !== chunk.hash) throw }
HashMismatch(chunk, value) ==
  /\ op = "download"
  /\ config.validateHash
  /\ chunk.hash # NoHash
  /\ calculateHash(value.bytes) # chunk.hash

\* uploadChunk: if (validateHash) chunk.hash = await calculateHash(chunkData)
WithUploadHash(chunk) ==
  IF op = "upload" /\ config.validateHash
  THEN [chunk EXCEPT !.hash = calculateHash(SourceBytes(chunk.start, chunk.end))]
  ELSE chunk

TransportError(n) ==
  [kind |-> IF op = "upload" THEN "Upload failed" ELSE "Download failed", attempt |-> n]

HashMismatchError(n) == [kind |-> "Hash mismatch", attempt |-> n]

MaxRetriesError == [kind |-> "Max retry attempts reached", attempt |-> 0]

\* ------------------------------------------------------------ worker rules
RetryLoopEnters(chunk) == chunk.retries < config.retryAttempts

Exhausted_OneEarly(chunk) == chunk.retries + 1 >= config.retryAttempts

Exhausted_Strict(chunk) == chunk.retries > config.retryAttempts

Exhausted(chunk) == chunk.retries >= config.retryAttempts

BytesAfter_NominalSize(chunk) == bytesTransferred + config.chunkSize

BytesAfter(chunk) == bytesTransferred + chunk.size

ActiveAfterSettle_Kept(chunk) == activeChunks

ActiveAfterSettle(chunk) == activeChunks \ {chunk.id}

ExitThrows_MoreThanOne == Cardinality(failedChunks) > 1

ExitThrows == Cardinality(failedChunks) > 0

AggregateError == [kind |-> "Error", count |-> Cardinality(failedChunks)]

\* The chunk ids the error's message names: the template interpolates only
\* failedChunks.size.
NamedChunkIds(err) == {}

\* ------------------------------------------------------------- event loop
SomeSettled == \E i \in 1..Len(activePromises) : worker[activePromises[i]] = "settled"

SchedulerRunning == pc \in {"planning", "loop", "launch"}

\* a then/catch callback of a chunk's promise is queued
CallbackPending == \E k \in 1..Len(worker) : worker[k] \in {"fulfilled", "rejected"}

MicrotaskPending ==
  \/ SchedulerRunning
  \/ pc = "await" /\ SomeSettled
  \/ CallbackPending

\* ------------------------------------------------------------------- Init
TypeOK ==
  /\ fileSize \in 0..MaxSize
  /\ op \in {"none", "upload", "download"}
  /\ pc \in {"idle", "planning", "loop", "launch", "await", "resolved", "rejected"}
  /\ Len(worker) = Len(chunks)
  /\ Len(job) = Len(chunks)
  /\ bytesTransferred \in Nat

\* no WebSocketClient in use
NoWebSocket ==
  /\ ws = 0
  /\ sockets = <<>>
  /\ wsConfig = [maxReconnectAttempts |-> 1, autoReconnect |-> FALSE]
  /\ wsState = [isConnected |-> FALSE, isReconnecting |-> FALSE,
                reconnectAttempts |-> 0]
  /\ wsReconnectTimer = FALSE
  /\ messageQueue = <<>>
  /\ wire = <<>>
  /\ submitted = 0

\* no SSEClient in use
NoEventSource ==
  /\ eventSource = 0
  /\ sources = <<>>
  /\ sseConfig = [maxReconnectAttempts |-> 1, autoReconnect |-> FALSE]
  /\ sseState = [isConnected |-> FALSE, isReconnecting |-> FALSE,
                 reconnectAttempts |-> 0]
  /\ sseReconnectTimer = FALSE

\* a RequestMocker without mocks
NewMocker ==
  /\ mocks = [m \in Methods |-> <<>>]
  /\ matchedRequests = 0
  /\ unmatchedRequests = 0
  /\ registered = <<>>
  /\ served = <<>>
  /\ outcome = NoOutcome

\* no CircuitBreaker in use: one with the default-like smallest configuration
NewBreaker ==
  /\ circuitState = "closed"
  /\ failures = 0
  /\ lastFailure = FALSE
  /\ resetTimeout = 0
  /\ halfOpenRequests = 0
  /\ totalRequests = 0
  /\ successfulRequests = 0
  /\ failedRequests = 0
  /\ resetTimers = {}
  /\ trips = 0
  /\ inFlight = 0
  /\ admitted = 0
  /\ executed = "none"

NoBreaker ==
  /\ breakerConfig = [failureThreshold |-> 1, maxHalfOpenRequests |-> 1]
  /\ NewBreaker

\* a RequestQueue nothing was added to
NewQueue ==
  /\ requestQueue = <<>>
  /\ running = 0
  /\ items = <<>>

NoQueue ==
  /\ maxConcurrent = 1
  /\ NewQueue

\* a RequestThrottler with a full bucket at time 0
NewThrottler ==
  /\ bucket = [tokens |-> throttleConfig.burstSize * TokenParts,
               lastRefill |-> 0]
  /\ throttled = <<>>
  /\ droppedRequests = 0
  /\ totalProcessed = 0
  /\ clock = 0
  /\ processTimers = <<>>
  /\ requests = <<>>

NoThrottler ==
  /\ throttleConfig = [requestsPerSecond |-> 10, burstSize |-> 1,
                       queueSize |-> 1]
  /\ NewThrottler

\* the fields of a new FileTransfer, and no call made yet
NewTransfer ==
  /\ startTime = MaxClockSkew
  /\ now = startTime
  /\ progress = NoProgress
  /\ chunks = <<>>
  /\ activeChunks = {}
  /\ completedChunks = {}
  /\ failedChunks = {}
  /\ bytesTransferred = 0
  /\ op = "none"
  /\ pc = "idle"
  /\ results = <<>>
  /\ activePromises = <<>>
  /\ worker = <<>>
  /\ returned = <<>>
  /\ thrown = NoError
  /\ launchLog = <<>>
  /\ job = <<>>
  /\ handled = {}

Init ==
  /\ fileSize \in 0..MaxSize
  /\ config \in [chunkSize : (0 - MaxNegChunkSize)..MaxChunkSize,
                 concurrentChunks : 1..MaxConcurrent,
                 retryAttempts : 0..MaxRetryAttempts,
                 validateHash : BOOLEAN,
                 resumePosition : 0..MaxSize]
  /\ headers = NoHeaders
  /\ NewTransfer
  /\ NoWebSocket
  /\ NoEventSource
  /\ NewMocker
  /\ NoBreaker
  /\ NoQueue
  /\ NoThrottler

\* ---------------------------------------------------------------- actions
\* upload()/download() up to the first test of the scheduler loop
Call(mode) ==
  /\ pc \in {"idle", "resolved", "rejected"}
  /\ ~MicrotaskPending
  /\ PlanTerminates
  /\ op' = mode
  /\ chunks' = initializeChunks
  /\ results' = NewArray(Len(chunks'))
  /\ activePromises' = <<>>
  /\ worker' = [k \in 1..Len(chunks') |-> "none"]
  /\ pc' = "loop"
  /\ returned' = <<>>
  /\ thrown' = NoError
  /\ launchLog' = <<>>
  /\ job' = [k \in 1..Len(chunks') |-> NewJob]
  /\ handled' = {}
  /\ UNCHANGED <<others, fileSize, config, activeChunks, completedChunks, failedChunks,
                 bytesTransferred>>

\* upload()/download() with a chunkSize that never moves start past totalSize:
\* initializeChunks is entered and its loop runs without end
CallDiverging(mode) ==
  /\ pc \in {"idle", "resolved", "rejected"}
  /\ ~MicrotaskPending
  /\ ~PlanTerminates
  /\ op' = mode
  /\ chunks' = <<>>
  /\ worker' = <<>>
  /\ job' = <<>>
  /\ pc' = "planning"
  /\ returned' = <<>>
  /\ thrown' = NoError
  /\ UNCHANGED <<others, fileSize, config, activeChunks, completedChunks, failedChunks,
                 bytesTransferred, results, activePromises, launchLog, handled>>

upload == Call("upload") \/ CallDiverging("upload")

download == Call("download") \/ CallDiverging("download")

\* one iteration of initializeChunks' loop when it does not end
PlanStep ==
  /\ pc = "planning"
  /\ Len(chunks) < MaxPlanSteps
  /\ LET start == config.resumePosition + Len(chunks) * config.chunkSize IN
     /\ PlanContinues(start, fileSize)
     /\ chunks' = Append(chunks, MakeChunk(start, fileSize, config.chunkSize))
  /\ worker' = Append(worker, "none")
  /\ job' = Append(job, NewJob)
  /\ UNCHANGED <<others, fileSize, config, activeChunks, completedChunks, failedChunks,
                 bytesTransferred, op, pc, results, activePromises, returned,
                 thrown, launchLog, handled>>

\* while (this.hasIncompleteChunks()) : enter the body
LoopEnter ==
  /\ pc = "loop"
  /\ hasIncompleteChunks
  /\ pc' = "launch"
  /\ UNCHANGED <<others, fileSize, config, chunks, activeChunks, completedChunks,
                 failedChunks, bytesTransferred, op, results, activePromises,
                 worker, returned, thrown, launchLog, job, handled>>

\* the loop ends: throw, or return results (download wraps them in a Blob)
LoopExit ==
  /\ pc = "loop"
  /\ ~hasIncompleteChunks
  /\ IF ExitThrows
     THEN /\ pc' = "rejected"
          /\ thrown' = AggregateError
          /\ returned' = <<>>
     ELSE /\ pc' = "resolved"
          /\ thrown' = NoError
          /\ returned' = IF op = "download" THEN BlobOf(results) ELSE <<>>
  /\ UNCHANGED <<others, fileSize, config, chunks, activeChunks, completedChunks,
                 failedChunks, bytesTransferred, op, results, activePromises,
                 worker, launchLog, job, handled>>

\* the retry loop tests its condition (line 110): start an attempt, or fall
\* through to the throw after the loop (line 119)
StartOrGiveUp(k) ==
  IF RetryLoopEnters(chunks[k])
  THEN /\ worker' = [worker EXCEPT ![k] = "attempt"]
       /\ job' = [job EXCEPT ![k].started = @ + 1,
                             ![k].request = FetchHeaders(chunks[k])]
  ELSE /\ worker' = [worker EXCEPT ![k] = "rejected"]
       /\ job' = [job EXCEPT ![k].error = MaxRetriesError]

\* the catch block of the retry loop: chunk.retries++, then rethrow the caught
\* error or start the delay
AttemptThrows(k, err) ==
  /\ chunks' = [chunks EXCEPT ![k] = [WithUploadHash(@) EXCEPT !.retries = @ + 1]]
  /\ IF Exhausted(chunks'[k])
     THEN /\ worker' = [worker EXCEPT ![k] = "rejected"]
          /\ job' = [job EXCEPT ![k].failed = @ + 1, ![k].error = err]
     ELSE /\ worker' = [worker EXCEPT ![k] = "delay"]
          /\ job' = [job EXCEPT ![k].failed = @ + 1]

\* one iteration of the inner loop: start processChunkWithRetry for the next
\* chunk (it runs synchronously up to its first await), track its promise
Launch ==
  /\ pc = "launch"
  /\ HasBudget
  /\ hasAvailableChunks
  /\ LET k == getNextChunk IN
     /\ k # 0
     /\ StartOrGiveUp(k)
     /\ activePromises' = Append(activePromises, k)
     /\ activeChunks' = activeChunks \cup {chunks[k].id}
     /\ launchLog' = Append(launchLog, chunks[k].index)
  /\ UNCHANGED <<others, fileSize, config, chunks, completedChunks, failedChunks,
                 bytesTransferred, op, pc, results, returned, thrown, handled>>

\* the inner loop's condition is false: await Promise.race(activePromises)
LaunchEnd ==
  /\ pc = "launch"
  /\ ~(HasBudget /\ hasAvailableChunks)
  /\ pc' = "await"
  /\ UNCHANGED <<others, fileSize, config, chunks, activeChunks, completedChunks,
                 failedChunks, bytesTransferred, op, results, activePromises,
                 worker, returned, thrown, launchLog, job, handled>>

\* the race has a settled member: the await continues, the list is filtered.
\* The microtask queue is FIFO: the reaction that starts a queued callback was
\* queued before the race was built, so the callback runs before the
\* continuation of the await.
AwaitResume ==
  /\ pc = "await"
  /\ SomeSettled
  /\ ~CallbackPending
  /\ activePromises' = FilterPromises(activePromises)
  /\ pc' = "loop"
  /\ handled' = {k \in 1..Len(worker) : worker[k] = "settled"}
  /\ UNCHANGED <<others, fileSize, config, chunks, activeChunks, completedChunks,
                 failedChunks, bytesTransferred, op, results, worker, returned,
                 thrown, launchLog, job>>

\* fetch() answers ok: upload resolves; download reads the body, checks the
\* hash and resolves with the body or throws
TransportSucceed(k) ==
  /\ ~MicrotaskPending
  /\ worker[k] = "attempt"
  /\ \E v \in Responses(chunks[k]) :
       IF HashMismatch(chunks[k], v)
       THEN AttemptThrows(k, HashMismatchError(job[k].started))
       ELSE /\ worker' = [worker EXCEPT ![k] = "fulfilled"]
            /\ job' = [job EXCEPT ![k].value = v]
            /\ chunks' = [chunks EXCEPT ![k] = WithUploadHash(@)]
  /\ UNCHANGED <<others, fileSize, config, activeChunks, completedChunks, failedChunks,
                 bytesTransferred, op, pc, results, activePromises, returned,
                 thrown, launchLog, handled>>

\* fetch() rejects or answers not ok: the attempt throws
TransportFail(k) ==
  /\ ~MicrotaskPending
  /\ worker[k] = "attempt"
  /\ AttemptThrows(k, TransportError(job[k].started))
  /\ UNCHANGED <<others, fileSize, config, activeChunks, completedChunks, failedChunks,
                 bytesTransferred, op, pc, results, activePromises, returned,
                 thrown, launchLog, handled>>

\* setTimeout(retryDelay) fires: the retry loop tests its condition again
RetryTimer(k) ==
  /\ ~MicrotaskPending
  /\ worker[k] = "delay"
  /\ StartOrGiveUp(k)
  /\ UNCHANGED <<others, fileSize, config, chunks, activeChunks, completedChunks,
                 failedChunks, bytesTransferred, op, pc, results, activePromises,
                 returned, thrown, launchLog, handled>>

\* the .then callback of the chunk's promise
OnFulfilled(k) ==
  /\ ~SchedulerRunning
  /\ worker[k] = "fulfilled"
  /\ results' = ArraySet(results, chunks[k].index, job[k].value)
  /\ completedChunks' = completedChunks \cup {chunks[k].id}
  /\ activeChunks' = ActiveAfterSettle(chunks[k])
  /\ bytesTransferred' = BytesAfter(chunks[k])
  /\ worker' = [worker EXCEPT ![k] = "settled"]
  /\ UNCHANGED <<others, fileSize, config, chunks, failedChunks, op, pc, activePromises,
                 returned, thrown, launchLog, job, handled>>

\* the .catch callback of the chunk's promise
OnRejected(k) ==
  /\ ~SchedulerRunning
  /\ worker[k] = "rejected"
  /\ failedChunks' = failedChunks \cup {chunks[k].id}
  /\ activeChunks' = ActiveAfterSettle(chunks[k])
  /\ worker' = [worker EXCEPT ![k] = "settled"]
  /\ UNCHANGED <<others, fileSize, config, chunks, completedChunks, bytesTransferred, op,
                 pc, results, activePromises, returned, thrown, launchLog, job,
                 handled>>

Scheduler == LoopEnter \/ LoopExit \/ Launch \/ LaunchEnd \/ AwaitResume

Next ==
  \/ upload
  \/ download
  \/ PlanStep
  \/ LoopEnter
  \/ LoopExit
  \/ Launch
  \/ LaunchEnd
  \/ AwaitResume
  \/ \E k \in 1..Len(chunks) : TransportSucceed(k)
  \/ \E k \in 1..Len(chunks) : TransportFail(k)
  \/ \E k \in 1..Len(chunks) : RetryTimer(k)
  \/ \E k \in 1..Len(chunks) : OnFulfilled(k)
  \/ \E k \in 1..Len(chunks) : OnRejected(k)

Spec == Init /\ [][Next]_vars

\* Fairness of the event loop: running code continues; a queued microtask runs
\* (the queue is FIFO, so one that is queued again and again is not overtaken
\* for ever); a macrotask that stays deliverable is delivered.  Nothing obliges
\* the caller to start another transfer.
FairSpec ==
  /\ Spec
  /\ WF_vars(Scheduler)
  /\ WF_vars(PlanStep)
  /\ \A k \in 1..MaxSize : SF_vars(k \in 1..Len(chunks) /\ OnFulfilled(k))
  /\ \A k \in 1..MaxSize : SF_vars(k \in 1..Len(chunks) /\ OnRejected(k))
  /\ \A k \in 1..MaxSize : WF_vars(k \in 1..Len(chunks) /\ TransportSucceed(k))
  /\ \A k \in 1..MaxSize : WF_vars(k \in 1..Len(chunks) /\ TransportFail(k))
  /\ \A k \in 1..MaxSize : WF_vars(k \in 1..Len(chunks) /\ RetryTimer(k))

\* ------------------------------------------------------------ getProgress
\* A JavaScript number: NaN, +Infinity, or the quotient num / den (den > 0).
NaN == [kind |-> "NaN", num |-> 0, den |-> 0]

Infinity == [kind |-> "Infinity", num |-> 1, den |-> 0]

Quotient(n, d) == [kind |-> "number", num |-> n, den |-> d]

Abs(n) == IF n < 0 THEN 0 - n ELSE n

Sign(n) == IF n < 0 THEN 0 - 1 ELSE 1

\* a / b on two integers a >= 0 and b, as IEEE 754 division
JsDivide(a, b) ==
  IF b = 0 THEN (IF a = 0 THEN NaN ELSE Infinity)
  ELSE Quotient(a * Sign(b), Abs(b))

\* x > 0 (false for NaN)
IsPositive(x) == x.kind = "Infinity" \/ (x.kind = "number" /\ x.num > 0)

MsPerSecond == 1000

\* bytesTransferred / ((now - startTime) / 1000)
Speed(t) == JsDivide(bytesTransferred * MsPerSecond, t - startTime)

Remaining == fileSize - bytesTransferred

\* speed > 0 ? remaining / speed : 0
EstimatedTimeRemaining(speed) ==
  IF IsPositive(speed)
  THEN (IF speed.kind = "Infinity" THEN Quotient(0, 1)
        ELSE Quotient(Remaining * speed.den, speed.num))
  ELSE Quotient(0, 1)

InProgressCount_Promises == Len(activePromises)

InProgressCount == Cardinality(activeChunks)

ChunkCounts ==
  [total |-> Len(chunks), completed |-> Cardinality(completedChunks),
   failed |-> Cardinality(failedChunks), inProgress |-> InProgressCount]

TransferProgress(t) ==
  [kind |-> "progress",
   bytesTransferred |-> bytesTransferred,
   totalBytes |-> fileSize,
   speed |-> Speed(t),
   estimatedTimeRemaining |-> EstimatedTimeRemaining(Speed(t)),
   chunks |-> ChunkCounts]

\* getProgress(), called by code of the application: it runs between two
\* stretches of the scheduler, never inside one
getProgress ==
  /\ ~SchedulerRunning
  /\ \E t \in (startTime - MaxClockSkew)..(startTime + MaxElapsed) :
       /\ now' = t
       /\ progress' = TransferProgress(t)
  /\ UNCHANGED <<transferVars, headers, startTime, outside>>

ProgressNext == Next \/ getProgress

\* Transfers observed through getProgress (hash validation off, no resume, no
\* headers, at most one retry)
ProgressInit ==
  /\ fileSize \in 0..MaxProgressSize
  /\ config \in [chunkSize : 0..MaxChunkSize,
                 concurrentChunks : 1..MaxConcurrent,
                 retryAttempts : 0..MaxProgressRetries,
                 validateHash : {FALSE},
                 resumePosition : {0}]
  /\ headers = NoHeaders
  /\ NewTransfer
  /\ NoWebSocket
  /\ NoEventSource
  /\ NewMocker
  /\ NoBreaker
  /\ NoQueue
  /\ NoThrottler

ProgressSpec == ProgressInit /\ [][ProgressNext]_vars

\* Header maps a caller may pass: none, one that does not touch the engine's
\* headers, and maps that carry a key the engine also writes.
HeaderMaps ==
  { NoHeaders,
    "X-Request-Id" :> 7,
    "Range" :> [first |-> 0, last |-> 0],
    "X-Chunk-Index" :> 9,
    "X-Chunk-Total" :> 9 }

\* Transfers with a caller-supplied header map (hash validation off, no resume)
RequestInit ==
  /\ fileSize \in 0..MaxSize
  /\ config \in [chunkSize : 0..MaxChunkSize,
                 concurrentChunks : 1..MaxConcurrent,
                 retryAttempts : 0..MaxRetryAttempts,
                 validateHash : {FALSE},
                 resumePosition : {0}]
  /\ headers \in HeaderMaps
  /\ NewTransfer
  /\ NoWebSocket
  /\ NoEventSource
  /\ NewMocker
  /\ NoBreaker
  /\ NoQueue
  /\ NoThrottler

RequestSpec == RequestInit /\ [][Next]_vars

\* ---------------------------------------------------------- no transfer
\* a FileTransfer that is never used: the state the other classes' runs keep
NoTransfer ==
  /\ fileSize = 0
  /\ config = [chunkSize |-> 1, concurrentChunks |-> 1, retryAttempts |-> 0,
               validateHash |-> FALSE, resumePosition |-> 0]
  /\ headers = NoHeaders
  /\ NewTransfer

\* -------------------------------------------------------- WebSocketClient
\* The client runs on the same event loop: connect(), close() and send() are
\* calls of the application, the open/error/close events of a socket and the
\* reconnect timeout are tasks, and each handler runs to completion.
\*
\* A socket: readyState; listening = the open/error listeners connect() added
\* are still attached; retry = its connect() was made by the reconnect timer
\* (the promise has the .catch of startReconnecting); errorDue/closeDue = the
\* browser has still to dispatch that event.
NewSocket(byTimer) ==
  [readyState |-> "CONNECTING", listening |-> TRUE, retry |-> byTimer,
   errorDue |-> FALSE, closeDue |-> FALSE]

\* this.ws?.readyState === WebSocket.OPEN
WsIsOpen == ws # 0 /\ sockets[ws].readyState = "OPEN"

\* this.state together with the reconnect timer, as the handlers transform it
WsClient == [state |-> wsState, timer |-> wsReconnectTimer]

\* startReconnecting()
startReconnecting(c) ==
  IF c.state.isReconnecting THEN c
  ELSE [state |-> [c.state EXCEPT !.isReconnecting = TRUE,
                                  !.reconnectAttempts = @ + 1],
        timer |-> TRUE]

\* stopReconnecting()
stopReconnecting(c) ==
  [state |-> [c.state EXCEPT !.isReconnecting = FALSE], timer |-> FALSE]

Disconnected(c) == [c EXCEPT !.state.isConnected = FALSE]

\* this.state.reconnectAttempts < this.config.maxReconnectAttempts
WsBelowMax(c) == c.state.reconnectAttempts < wsConfig.maxReconnectAttempts

\* handleError(): reconnects unless a reconnection is under way; the number
\* of attempts is not looked at
handleError(c) ==
  LET d == Disconnected(c) IN
  IF wsConfig.autoReconnect /\ ~d.state.isReconnecting
  THEN startReconnecting(d) ELSE d

\* ws.onclose
onclose(c) ==
  LET d == Disconnected(c) IN
  IF wsConfig.autoReconnect /\ WsBelowMax(d) THEN startReconnecting(d) ELSE d

\* the .catch of the connect() the reconnect timer made
CatchReconnect(c) == IF WsBelowMax(c) THEN startReconnecting(c) ELSE c

\* the error listener connect() added to socket s.  Its first statement is
\* this.ws!.removeEventListener: with this.ws null it throws and nothing else
\* of the listener runs.
onError(c, s) ==
  IF ws = 0 THEN c
  ELSE LET d == Disconnected(c)
           e == IF wsConfig.autoReconnect /\ WsBelowMax(d)
                THEN startReconnecting(d) ELSE d
       IN IF sockets[s].retry THEN CatchReconnect(e) ELSE e

\* this.ws.removeEventListener(open/error) as executed by a listener of
\* socket s: the listeners are those of s, so it has an effect only if this.ws
\* is s
RemoveListeners(s) ==
  IF ws = s THEN [sockets EXCEPT ![s].listening = FALSE] ELSE sockets

Sent(queue, viaQueue) ==
  [i \in 1..Len(queue) |-> [socket |-> ws, msg |-> queue[i], queued |-> viaQueue]]

Reverse(q) == [i \in 1..Len(q) |-> q[Len(q) + 1 - i]]

FlushOrder_LastFirst(queue) == Reverse(queue)

\* flushMessageQueue takes the messages with shift(): oldest first
FlushOrder(queue) == queue

\* connect(): nothing if the socket is open, otherwise a new socket with the
\* handlers of setupEventListeners and the open/error listeners
connect(byTimer) ==
  IF WsIsOpen
  THEN UNCHANGED <<ws, sockets>>
  ELSE /\ Len(sockets) < MaxSockets
       /\ sockets' = Append(sockets, NewSocket(byTimer))
       /\ ws' = Len(sockets) + 1

\* the application calls connect()
wsConnect ==
  /\ connect(FALSE)
  /\ ws' # ws
  /\ UNCHANGED <<wsConfig, wsState, wsReconnectTimer, messageQueue, wire,
                 submitted>>
  /\ UNCHANGED <<transferVars, headers, startTime, now, progress, sseVars,
                 mockVars, controlVars>>

\* the reconnect timeout fires: this.connect().catch(...)
wsReconnect ==
  /\ wsReconnectTimer
  /\ connect(TRUE)
  /\ wsReconnectTimer' = FALSE
  /\ UNCHANGED <<wsConfig, wsState, messageQueue, wire, submitted>>
  /\ UNCHANGED <<transferVars, headers, startTime, now, progress, sseVars,
                 mockVars, controlVars>>

\* the application calls close()
wsClose ==
  /\ LET c == Disconnected(stopReconnecting(WsClient)) IN
       /\ wsState' = c.state
       /\ wsReconnectTimer' = c.timer
  /\ IF ws = 0 THEN UNCHANGED sockets
     ELSE sockets' =
            [sockets EXCEPT ![ws] =
               IF @.readyState = "CONNECTING"
               THEN [@ EXCEPT !.readyState = "CLOSING", !.errorDue = TRUE,
                              !.closeDue = TRUE]
               ELSE IF @.readyState = "OPEN"
               THEN [@ EXCEPT !.readyState = "CLOSING", !.closeDue = TRUE]
               ELSE @]
  /\ ws' = 0
  /\ UNCHANGED <<wsConfig, messageQueue, wire, submitted>>
  /\ UNCHANGED <<transferVars, headers, startTime, now, progress, sseVars,
                 mockVars, controlVars>>

\* the application (or the heartbeat interval, which sends only on an open
\* socket) calls send(message)
send ==
  /\ submitted < MaxMessages
  /\ submitted' = submitted + 1
  /\ IF ~WsIsOpen
     THEN /\ messageQueue' = Append(messageQueue, submitted')
          /\ wire' = wire
     ELSE /\ wire' = wire \o Sent(<<submitted'>>, FALSE)
          /\ messageQueue' = messageQueue
  /\ UNCHANGED <<ws, sockets, wsConfig, wsState, wsReconnectTimer>>
  /\ UNCHANGED <<transferVars, headers, startTime, now, progress, sseVars,
                 mockVars, controlVars>>

\* socket s opens: the open listener of its connect()
wsOpen(s) ==
  /\ sockets[s].readyState = "CONNECTING"
  /\ LET opened == [sockets EXCEPT ![s].readyState = "OPEN"] IN
     IF ~sockets[s].listening \/ ws = 0
     THEN /\ sockets' = opened
          /\ UNCHANGED <<wsState, wsReconnectTimer, messageQueue, wire>>
     ELSE /\ sockets' = [opened EXCEPT ![s].listening = (ws # s)]
          /\ wsState' = [isConnected |-> TRUE, isReconnecting |-> FALSE,
                         reconnectAttempts |-> 0]
          /\ wsReconnectTimer' = wsReconnectTimer
          /\ IF opened[ws].readyState = "OPEN"
             THEN /\ wire' = wire \o Sent(FlushOrder(messageQueue), TRUE)
                  /\ messageQueue' = <<>>
             ELSE UNCHANGED <<messageQueue, wire>>
  /\ UNCHANGED <<ws, wsConfig, submitted>>
  /\ UNCHANGED <<transferVars, headers, startTime, now, progress, sseVars,
                 mockVars, controlVars>>

\* an error event on socket s: ws.onerror (handleError), then the error
\* listener of connect() if it is still attached, then the .catch reaction
wsError(s) ==
  /\ \/ sockets[s].readyState \in {"CONNECTING", "OPEN"}
     \/ sockets[s].errorDue
  /\ LET c == handleError(WsClient)
         d == IF sockets[s].listening THEN onError(c, s) ELSE c
         removed == IF sockets[s].listening /\ ws # 0
                    THEN RemoveListeners(s) ELSE sockets
     IN /\ wsState' = d.state
        /\ wsReconnectTimer' = d.timer
        /\ sockets' = [removed EXCEPT ![s].readyState = "CLOSED",
                                      ![s].errorDue = FALSE,
                                      ![s].closeDue = TRUE]
  /\ UNCHANGED <<ws, wsConfig, messageQueue, wire, submitted>>
  /\ UNCHANGED <<transferVars, headers, startTime, now, progress, sseVars,
                 mockVars, controlVars>>

\* a close event on socket s: ws.onclose
wsClosed(s) ==
  /\ \/ sockets[s].readyState = "OPEN"
     \/ sockets[s].closeDue /\ ~sockets[s].errorDue
  /\ LET c == onclose(WsClient) IN
       /\ wsState' = c.state
       /\ wsReconnectTimer' = c.timer
  /\ sockets' = [sockets EXCEPT ![s].readyState = "CLOSED",
                                ![s].closeDue = FALSE]
  /\ UNCHANGED <<ws, wsConfig, messageQueue, wire, submitted>>
  /\ UNCHANGED <<transferVars, headers, startTime, now, progress, sseVars,
                 mockVars, controlVars>>

WsInit ==
  /\ NoTransfer
  /\ NoEventSource
  /\ NewMocker
  /\ NoBreaker
  /\ NoQueue
  /\ NoThrottler
  /\ ws = 0
  /\ sockets = <<>>
  /\ wsConfig \in [maxReconnectAttempts : 1..MaxMaxReconnectAttempts,
                   autoReconnect : BOOLEAN]
  /\ wsState = [isConnected |-> FALSE, isReconnecting |-> FALSE,
                reconnectAttempts |-> 0]
  /\ wsReconnectTimer = FALSE
  /\ messageQueue = <<>>
  /\ wire = <<>>
  /\ submitted = 0

WsNext ==
  \/ wsConnect
  \/ wsReconnect
  \/ wsClose
  \/ send
  \/ \E s \in 1..Len(sockets) : wsOpen(s)
  \/ \E s \in 1..Len(sockets) : wsError(s)
  \/ \E s \in 1..Len(sockets) : wsClosed(s)

WsSpec == WsInit /\ [][WsNext]_vars

\* ---------------------------------------------------------------- SSEClient
\* An EventSource: readyState; listening = the open/error listeners connect()
\* added are still attached; retry = its connect() was made by the reconnect
\* timer.  After an error the browser either retries by itself (CONNECTING)
\* or gives up (CLOSED); a source closed by close() dispatches nothing more.
NewSource(byTimer) ==
  [readyState |-> "CONNECTING", listening |-> TRUE, retry |-> byTimer]

\* this.eventSource?.readyState === EventSource.OPEN
SseIsOpen == eventSource # 0 /\ sources[eventSource].readyState = "OPEN"

SseClient == [state |-> sseState, timer |-> sseReconnectTimer]

SseMayReconnect_NoCap(c) == sseConfig.autoReconnect

\* this.config.autoReconnect &&
\*   this.state.reconnectAttempts < this.config.maxReconnectAttempts
SseMayReconnect(c) ==
  /\ sseConfig.autoReconnect
  /\ c.state.reconnectAttempts < sseConfig.maxReconnectAttempts

\* eventSource.onerror, and the body of connect()'s onError listener
sseOnerror(c) ==
  LET d == Disconnected(c) IN
  IF SseMayReconnect(d) THEN startReconnecting(d) ELSE d

\* the .catch of the connect() the reconnect timer made
SseCatchReconnect(c) ==
  IF c.state.reconnectAttempts < sseConfig.maxReconnectAttempts
  THEN startReconnecting(c) ELSE c

\* the application calls connect(), or the reconnect timeout does
sseNewSource(byTimer) ==
  IF SseIsOpen
  THEN UNCHANGED <<eventSource, sources>>
  ELSE /\ Len(sources) < MaxSources
       /\ sources' = Append(sources, NewSource(byTimer))
       /\ eventSource' = Len(sources) + 1

sseConnect ==
  /\ sseNewSource(FALSE)
  /\ eventSource' # eventSource
  /\ UNCHANGED <<sseConfig, sseState, sseReconnectTimer>>
  /\ UNCHANGED <<transferVars, headers, startTime, now, progress, wsVars,
                 mockVars, controlVars>>

sseReconnect ==
  /\ sseReconnectTimer
  /\ sseNewSource(TRUE)
  /\ sseReconnectTimer' = FALSE
  /\ UNCHANGED <<sseConfig, sseState>>
  /\ UNCHANGED <<transferVars, headers, startTime, now, progress, wsVars,
                 mockVars, controlVars>>

\* close() / disconnect()
sseClose ==
  /\ LET c == Disconnected(stopReconnecting(SseClient)) IN
       /\ sseState' = c.state
       /\ sseReconnectTimer' = c.timer
  /\ IF eventSource = 0 THEN UNCHANGED sources
     ELSE sources' = [sources EXCEPT ![eventSource].readyState = "CLOSED"]
  /\ eventSource' = 0
  /\ UNCHANGED sseConfig
  /\ UNCHANGED <<transferVars, headers, startTime, now, progress, wsVars,
                 mockVars, controlVars>>

\* source s opens: the open listener of its connect(), if still attached
\* (with this.eventSource null its first statement throws)
sseOpen(s) ==
  /\ sources[s].readyState = "CONNECTING"
  /\ IF ~sources[s].listening \/ eventSource = 0
     THEN /\ sources' = [sources EXCEPT ![s].readyState = "OPEN"]
          /\ UNCHANGED sseState
     ELSE /\ sources' = [sources EXCEPT ![s].readyState = "OPEN",
                                        ![s].listening = (eventSource # s)]
          /\ sseState' = [isConnected |-> TRUE, isReconnecting |-> FALSE,
                          reconnectAttempts |-> 0]
  /\ UNCHANGED <<eventSource, sseConfig, sseReconnectTimer>>
  /\ UNCHANGED <<transferVars, headers, startTime, now, progress, wsVars,
                 mockVars, controlVars>>

\* an error event on source s: the error listener of connect() (added first),
\* then eventSource.onerror, then the .catch reaction of a rejected connect()
sseError(s, after) ==
  /\ sources[s].readyState \in {"CONNECTING", "OPEN"}
  /\ LET listens == sources[s].listening /\ eventSource # 0
         c == IF listens THEN sseOnerror(SseClient) ELSE SseClient
         d == sseOnerror(c)
         e == IF listens /\ sources[s].retry THEN SseCatchReconnect(d) ELSE d
     IN /\ sseState' = e.state
        /\ sseReconnectTimer' = e.timer
        /\ sources' = [sources EXCEPT
                         ![s].readyState = after,
                         ![s].listening = @ /\ ~(listens /\ eventSource = s)]
  /\ UNCHANGED <<eventSource, sseConfig>>
  /\ UNCHANGED <<transferVars, headers, startTime, now, progress, wsVars,
                 mockVars, controlVars>>

SseInit ==
  /\ NoTransfer
  /\ NoWebSocket
  /\ NewMocker
  /\ NoBreaker
  /\ NoQueue
  /\ NoThrottler
  /\ eventSource = 0
  /\ sources = <<>>
  /\ sseConfig \in [maxReconnectAttempts : 1..MaxSseReconnectAttempts,
                    autoReconnect : BOOLEAN]
  /\ sseState = [isConnected |-> FALSE, isReconnecting |-> FALSE,
                 reconnectAttempts |-> 0]
  /\ sseReconnectTimer = FALSE

SseNext ==
  \/ sseConnect
  \/ sseReconnect
  \/ sseClose
  \/ \E s \in 1..Len(sources) : sseOpen(s)
  \/ \E s \in 1..Len(sources) : \E after \in {"CONNECTING", "CLOSED"} :
        sseError(s, after)

SseSpec == SseInit /\ [][SseNext]_vars

\* ---------------------------------------------------------- RequestMocker
\* A finite `times` as the number it is; Infinity stands for `times` left out.
Times(n) == Quotient(n, 1)

\* request URLs, and the `url` of a mock: a string or a RegExp matching any URL
Urls == {"/a", "/b"}

AnyUrl == "/.*/"

\* a property the caller left out
Undefined == [kind |-> "undefined", num |-> 0, den |-> 1]

\* config.times ?? Infinity
TimesOrInfinity(cfg) ==
  IF cfg.times = Undefined THEN Infinity ELSE cfg.times

\* the test of findMatchingMock for a mock without query, headers and body
MatchesUrl(entry, request) ==
  IF entry.url = AnyUrl THEN TRUE ELSE entry.url = request.url

\* mocks.find(...): the position of the first matching mock, 0 for undefined
findMatchingMock(list, request) ==
  IF \E i \in 1..Len(list) : MatchesUrl(list[i], request)
  THEN CHOOSE i \in 1..Len(list) :
         /\ MatchesUrl(list[i], request)
         /\ \A j \in 1..(i - 1) : ~MatchesUrl(list[j], request)
  ELSE 0

\* removeMock: splice the mock object out of its method's list
removeMock(all, method, id) ==
  [all EXCEPT ![method] = SelectSeq(@, LAMBDA m : m.id # id)]

\* mock.times > 0 in getStats
HasTimesLeft(entry) == entry.times = Infinity \/ entry.times.num > 0

\* mock.times-- ; if (mock.times <= 0) removeMock
UseOnce(all, method, entry, at) ==
  IF entry.times = Infinity
  THEN all
  ELSE IF entry.times.num - 1 <= 0
       THEN removeMock(all, method, entry.id)
       ELSE [all EXCEPT ![method][at].times = Times(entry.times.num - 1)]

\* the sum of count[m] over the methods m in S
RECURSIVE SumOver(_, _)
SumOver(count, S) ==
  IF S = {} THEN 0
  ELSE LET m == CHOOSE x \in S : TRUE
       IN  count[m] + SumOver(count, S \ {m})

getStats ==
  [totalMocks |-> SumOver([m \in Methods |-> Len(mocks[m])], Methods),
   activeMocks |->
     SumOver([m \in Methods |-> Len(SelectSeq(mocks[m], HasTimesLeft))],
             Methods),
   matchedRequests |-> matchedRequests,
   unmatchedRequests |-> unmatchedRequests]

mock(cfg) ==
  /\ Len(registered) < MaxMocks
  /\ LET id == Len(registered) + 1
         mockConfig == [id |-> id, url |-> cfg.url,
                        times |-> TimesOrInfinity(cfg)]
     IN  /\ mocks' = [mocks EXCEPT ![cfg.method] = Append(@, mockConfig)]
         /\ registered' = Append(registered, cfg)
         /\ served' = Append(served, 0)
  /\ UNCHANGED <<matchedRequests, unmatchedRequests, outcome>>
  /\ UNCHANGED <<transferVars, headers, startTime, now, progress, wsVars,
                 sseVars, controlVars>>

\* the function mock() returned
unregister(id) ==
  /\ mocks' = removeMock(mocks, registered[id].method, id)
  /\ UNCHANGED <<matchedRequests, unmatchedRequests, registered, served,
                 outcome>>
  /\ UNCHANGED <<transferVars, headers, startTime, now, progress, wsVars,
                 sseVars, controlVars>>

mockRequest(request) ==
  /\ matchedRequests + unmatchedRequests < MaxRequests
  /\ LET list == mocks[request.method]
         at == findMatchingMock(list, request)
     IN  IF at = 0
         THEN /\ unmatchedRequests' = unmatchedRequests + 1
              /\ outcome' = [kind |-> "No matching mock found", mock |-> 0]
              /\ UNCHANGED <<mocks, matchedRequests, served>>
         ELSE /\ matchedRequests' = matchedRequests + 1
              /\ mocks' = UseOnce(mocks, request.method, list[at], at)
              /\ served' = [served EXCEPT ![list[at].id] = @ + 1]
              /\ outcome' = [kind |-> "response", mock |-> list[at].id]
              /\ UNCHANGED unmatchedRequests
  /\ UNCHANGED registered
  /\ UNCHANGED <<transferVars, headers, startTime, now, progress, wsVars,
                 sseVars, controlVars>>

reset ==
  /\ mocks' = [m \in Methods |-> <<>>]
  /\ matchedRequests' = 0
  /\ unmatchedRequests' = 0
  /\ UNCHANGED <<registered, served, outcome>>
  /\ UNCHANGED <<transferVars, headers, startTime, now, progress, wsVars,
                 sseVars, controlVars>>

MockConfigs ==
  [method : Methods, url : Urls \cup {AnyUrl},
   times : {Times(n) : n \in 0..MaxTimes} \cup {Undefined}]

MockRequests == [method : Methods, url : Urls]

MockInit ==
  /\ NoTransfer
  /\ NoWebSocket
  /\ NoEventSource
  /\ NewMocker
  /\ NoBreaker
  /\ NoQueue
  /\ NoThrottler

MockNext ==
  \/ \E cfg \in MockConfigs : mock(cfg)
  \/ \E id \in 1..Len(registered) : unregister(id)
  \/ \E request \in MockRequests : mockRequest(request)
  \/ reset

MockSpec == MockInit /\ [][MockNext]_vars

\* --------------------------------------------------------- CircuitBreaker
\* execute() runs synchronously up to `await action()`; the action settles in
\* a later task, and onSuccess/onFailure then see the state of that moment.
\* trip() overwrites this.resetTimeout without clearing the timer it held.

\* this.halfOpenRequests >= this.maxHalfOpenRequests
HalfOpenFull_OffByOne == halfOpenRequests > breakerConfig.maxHalfOpenRequests

HalfOpenFull == halfOpenRequests >= breakerConfig.maxHalfOpenRequests

\* onFailure: the condition under which trip() is called, failures counted
ShouldTrip_AlsoWhenOpen(count) ==
  \/ circuitState = "closed" /\ count >= breakerConfig.failureThreshold
  \/ circuitState \in {"half-open", "open"}

ShouldTrip(count) ==
  \/ circuitState = "closed" /\ count >= breakerConfig.failureThreshold
  \/ circuitState = "half-open"

\* trip(): open, and a new reset timer
trip ==
  /\ circuitState' = "open"
  /\ trips' = trips + 1
  /\ resetTimeout' = trips'
  /\ resetTimers' = resetTimers \cup {trips'}
  /\ UNCHANGED <<halfOpenRequests, admitted>>

\* reset(): clearTimeout(this.resetTimeout), closed, counters cleared
breakerReset ==
  /\ resetTimers' = resetTimers \ {resetTimeout}
  /\ resetTimeout' = 0
  /\ circuitState' = "closed"
  /\ failures' = 0
  /\ lastFailure' = FALSE
  /\ halfOpenRequests' = 0
  /\ UNCHANGED <<trips, admitted>>

\* execute(action) up to the await
execute ==
  /\ IF circuitState = "open"
     THEN /\ executed' = "Circuit breaker is open"
          /\ UNCHANGED <<halfOpenRequests, totalRequests, inFlight, admitted>>
     ELSE IF circuitState = "half-open" /\ HalfOpenFull
     THEN /\ executed' = "Too many requests in half-open state"
          /\ UNCHANGED <<halfOpenRequests, totalRequests, inFlight, admitted>>
     ELSE /\ totalRequests < MaxExecutes
          /\ totalRequests' = totalRequests + 1
          /\ halfOpenRequests' = IF circuitState = "half-open"
                                 THEN halfOpenRequests + 1
                                 ELSE halfOpenRequests
          /\ admitted' = IF circuitState = "half-open"
                         THEN admitted + 1 ELSE admitted
          /\ inFlight' = inFlight + 1
          /\ executed' = "action invoked"
  /\ UNCHANGED <<breakerConfig, circuitState, failures, lastFailure,
                 resetTimeout, successfulRequests, failedRequests, resetTimers,
                 trips>>
  /\ UNCHANGED <<transferVars, headers, startTime, now, progress, wsVars,
                 sseVars, mockVars, queueVars, throttleVars>>

\* an invoked action resolves: onSuccess()
onSuccess ==
  /\ inFlight > 0
  /\ inFlight' = inFlight - 1
  /\ successfulRequests' = successfulRequests + 1
  /\ IF circuitState = "half-open"
     THEN breakerReset
     ELSE UNCHANGED <<circuitState, failures, lastFailure, resetTimeout,
                      halfOpenRequests, resetTimers, trips, admitted>>
  /\ UNCHANGED <<breakerConfig, totalRequests, failedRequests, executed>>
  /\ UNCHANGED <<transferVars, headers, startTime, now, progress, wsVars,
                 sseVars, mockVars, queueVars, throttleVars>>

\* an invoked action rejects: onFailure()
onFailure ==
  /\ inFlight > 0
  /\ inFlight' = inFlight - 1
  /\ failedRequests' = failedRequests + 1
  /\ failures' = failures + 1
  /\ lastFailure' = TRUE
  /\ IF ShouldTrip(failures')
     THEN trip
     ELSE UNCHANGED <<circuitState, resetTimeout, halfOpenRequests,
                      resetTimers, trips, admitted>>
  /\ UNCHANGED <<breakerConfig, totalRequests, successfulRequests, executed>>
  /\ UNCHANGED <<transferVars, headers, startTime, now, progress, wsVars,
                 sseVars, mockVars, queueVars, throttleVars>>

\* the callback of a reset timer
resetTimerFires(t) ==
  /\ t \in resetTimers
  /\ resetTimers' = resetTimers \ {t}
  /\ circuitState' = "half-open"
  /\ halfOpenRequests' = 0
  /\ admitted' = 0
  /\ UNCHANGED <<breakerConfig, failures, lastFailure, resetTimeout,
                 totalRequests, successfulRequests, failedRequests, trips,
                 inFlight, executed>>
  /\ UNCHANGED <<transferVars, headers, startTime, now, progress, wsVars,
                 sseVars, mockVars, queueVars, throttleVars>>

BreakerInit ==
  /\ NoTransfer
  /\ NoWebSocket
  /\ NoEventSource
  /\ NewMocker
  /\ breakerConfig \in [failureThreshold : 1..MaxFailureThreshold,
                        maxHalfOpenRequests : 0..MaxHalfOpenRequests]
  /\ NewBreaker
  /\ NoQueue
  /\ NoThrottler

BreakerNext ==
  \/ execute
  \/ onSuccess
  \/ onFailure
  \/ \E t \in 1..MaxExecutes : resetTimerFires(t)

BreakerSpec == BreakerInit /\ [][BreakerNext]_vars

\* ----------------------------------------------------------- RequestQueue
\* add() runs process() synchronously up to its first await: an item that may
\* start is started in the add() call itself; otherwise process() polls every
\* 100 ms.  items[i] is "waiting" while that loop runs, "running" while
\* item.execute() is pending and "settled" once the promise of add() settled.

\* this.queue.sort((a, b) => b.priority - a.priority): a stable sort of a list
\* that was sorted before the push
RECURSIVE SortedInsert(_, _)
SortedInsert(list, item) ==
  IF list = <<>> THEN <<item>>
  ELSE IF Head(list).priority < item.priority THEN <<item>> \o list
  ELSE <<Head(list)>> \o SortedInsert(Tail(list), item)

\* the condition of the while loop in process()
MustWait(list, id) ==
  \/ running >= maxConcurrent
  \/ list = <<>>
  \/ Head(list).id # id

\* this.queue.filter(i => i.id !== item.id)
Without(list, id) == SelectSeq(list, LAMBDA i : i.id # id)

\* process(item) from the test of its loop to `await item.execute()`
process(list, id, all) ==
  IF MustWait(list, id)
  THEN /\ requestQueue' = list
       /\ items' = [all EXCEPT ![id] = "waiting"]
       /\ running' = running
  ELSE /\ running' = running + 1
       /\ requestQueue' = Without(list, id)
       /\ items' = [all EXCEPT ![id] = "running"]

add(priority) ==
  /\ Len(items) < MaxAdds
  /\ LET id == Len(items) + 1 IN
       process(SortedInsert(requestQueue, [id |-> id, priority |-> priority]), id,
               Append(items, "waiting"))
  /\ UNCHANGED maxConcurrent
  /\ UNCHANGED <<transferVars, headers, startTime, now, progress, wsVars,
                 sseVars, mockVars, breakerVars, throttleVars>>

\* the 100 ms timeout of a waiting process() fires: the loop tests again
poll(id) ==
  /\ id \in 1..Len(items)
  /\ items[id] = "waiting"
  /\ process(requestQueue, id, items)
  /\ UNCHANGED maxConcurrent
  /\ UNCHANGED <<transferVars, headers, startTime, now, progress, wsVars,
                 sseVars, mockVars, breakerVars, throttleVars>>

\* item.execute() settles: finally { this.running-- }
finish(id) ==
  /\ id \in 1..Len(items)
  /\ items[id] = "running"
  /\ running' = running - 1
  /\ items' = [items EXCEPT ![id] = "settled"]
  /\ UNCHANGED <<maxConcurrent, requestQueue>>
  /\ UNCHANGED <<transferVars, headers, startTime, now, progress, wsVars,
                 sseVars, mockVars, breakerVars, throttleVars>>

clear ==
  /\ requestQueue' = <<>>
  /\ UNCHANGED <<maxConcurrent, running, items>>
  /\ UNCHANGED <<transferVars, headers, startTime, now, progress, wsVars,
                 sseVars, mockVars, breakerVars, throttleVars>>

QueueInit ==
  /\ NoTransfer
  /\ NoWebSocket
  /\ NoEventSource
  /\ NewMocker
  /\ NoBreaker
  /\ maxConcurrent \in 1..MaxMaxConcurrent
  /\ NewQueue
  /\ NoThrottler

QueueNext ==
  \/ \E priority \in 0..MaxPriority : add(priority)
  \/ \E id \in 1..MaxAdds : poll(id)
  \/ \E id \in 1..MaxAdds : finish(id)
  \/ clear

QueueSpec == QueueInit /\ [][QueueNext]_vars

\* The timers of the polling loops fire and every executed item settles; when
\* the application calls add() and clear() is up to the application.
QueueFairSpec ==
  /\ QueueSpec
  /\ \A id \in 1..MaxAdds : WF_vars(poll(id)) /\ WF_vars(finish(id))

\* ------------------------------------------------------- RequestThrottler
\* waitForToken and processQueue have no await inside: although declared
\* async they run synchronously, also when they call each other.  The
\* operators below transform the throttler's fields, held in a record.
Throttler ==
  [tokens |-> bucket.tokens, lastRefill |-> bucket.lastRefill,
   queue |-> throttled, dropped |-> droppedRequests,
   timers |-> processTimers, reqs |-> requests]

\* one token, in token parts
OneToken == TokenParts

\* (now - lastRefill) / 1000 * tokensPerSecond, in token parts
TokensToAdd(t) ==
  ((clock - t.lastRefill) * throttleConfig.requestsPerSecond * TokenParts)
    \div TicksPerSecond

refillTokens(t) ==
  [t EXCEPT !.tokens = Min(throttleConfig.burstSize * TokenParts,
                           t.tokens + TokensToAdd(t)),
            !.lastRefill = clock]

RECURSIVE waitForToken(_, _, _)
RECURSIVE processQueue(_)
RECURSIVE DrainQueue(_)

\* the while loop of processQueue: shift a request, take a token, call it
DrainQueue(t) ==
  IF t.tokens >= OneToken /\ t.queue # <<>>
  THEN LET r == Head(t.queue)
           taken == [t EXCEPT !.queue = Tail(t.queue),
                              !.tokens = @ - OneToken,
                              !.reqs[r].spent = @ + 1]
       IN  DrainQueue(waitForToken(taken, r, TRUE))
  ELSE t

processQueue(t) ==
  IF t.queue = <<>> THEN t
  ELSE LET d == DrainQueue(refillTokens(t)) IN
       IF d.queue # <<>>
       THEN [d EXCEPT !.timers = Append(@, clock + 1)]
       ELSE d

\* waitForToken() on behalf of request r; wasQueued: called by the closure
\* processQueue took from the queue, whose rejection nobody handles
waitForToken(t, r, wasQueued) ==
  LET f == refillTokens(t) IN
  IF f.tokens >= OneToken
  THEN [f EXCEPT !.tokens = @ - OneToken,
                 !.reqs[r].spent = @ + 1,
                 !.reqs[r].status = "executing"]
  ELSE IF Len(f.queue) >= throttleConfig.queueSize
  THEN [f EXCEPT !.dropped = @ + 1,
                 !.reqs[r].status =
                    IF wasQueued THEN "abandoned" ELSE "dropped"]
  ELSE processQueue([f EXCEPT !.queue = Append(@, r),
                              !.reqs[r].status = "queued"])

\* the fields after a synchronous run that ended with record t
ThrottlerBecomes(t) ==
  /\ bucket' = [tokens |-> t.tokens, lastRefill |-> t.lastRefill]
  /\ throttled' = t.queue
  /\ droppedRequests' = t.dropped
  /\ processTimers' = t.timers
  /\ requests' = t.reqs

\* execute(action) up to the end of waitForToken
throttle ==
  /\ Len(requests) < MaxThrottled
  /\ LET r == Len(requests) + 1
         t == [Throttler EXCEPT
                 !.reqs = Append(@, [status |-> "new", spent |-> 0])]
     IN  ThrottlerBecomes(waitForToken(t, r, FALSE))
  /\ UNCHANGED <<throttleConfig, totalProcessed, clock>>
  /\ UNCHANGED <<transferVars, headers, startTime, now, progress, wsVars,
                 sseVars, mockVars, breakerVars, queueVars>>

\* the action of a request that got its token settles
actionSettles(r, ok) ==
  /\ r \in 1..Len(requests)
  /\ requests[r].status = "executing"
  /\ requests' = [requests EXCEPT ![r].status = "settled"]
  /\ totalProcessed' = IF ok THEN totalProcessed + 1 ELSE totalProcessed
  /\ UNCHANGED <<throttleConfig, bucket, throttled, droppedRequests, clock,
                 processTimers>>
  /\ UNCHANGED <<transferVars, headers, startTime, now, progress, wsVars,
                 sseVars, mockVars, breakerVars, queueVars>>

\* the oldest timeout of processQueue is due
processTimerFires ==
  /\ processTimers # <<>>
  /\ Head(processTimers) <= clock
  /\ ThrottlerBecomes(
       processQueue([Throttler EXCEPT !.timers = Tail(processTimers)]))
  /\ UNCHANGED <<throttleConfig, totalProcessed, clock>>
  /\ UNCHANGED <<transferVars, headers, startTime, now, progress, wsVars,
                 sseVars, mockVars, breakerVars, queueVars>>

\* 100 ms pass
tick ==
  /\ clock < MaxClock
  /\ clock' = clock + 1
  /\ UNCHANGED <<throttleConfig, bucket, throttled, droppedRequests,
                 totalProcessed, processTimers, requests>>
  /\ UNCHANGED <<transferVars, headers, startTime, now, progress, wsVars,
                 sseVars, mockVars, breakerVars, queueVars>>

\* requestsPerSecond values whose refill per period is a whole number of parts
Rates == {5, 10}

ThrottleInit ==
  /\ NoTransfer
  /\ NoWebSocket
  /\ NoEventSource
  /\ NewMocker
  /\ NoBreaker
  /\ NoQueue
  /\ throttleConfig \in [requestsPerSecond : Rates,
                         burstSize : 1..MaxBurstSize,
                         queueSize : 1..MaxQueueSize]
  /\ NewThrottler

ThrottleNext ==
  \/ throttle
  \/ \E r \in 1..MaxThrottled : \E ok \in BOOLEAN : actionSettles(r, ok)
  \/ processTimerFires
  \/ tick

ThrottleSpec == ThrottleInit /\ [][ThrottleNext]_vars

\* ------------------------------------------------------------ properties
Settled == pc \in {"resolved", "rejected"}

InCall == pc \in {"loop", "launch", "await"}

ChunkIds == {chunks[k].id : k \in 1..Len(chunks)}

Tracked == activeChunks \cup completedChunks \cup failedChunks

\* chunk operations in flight: a transport attempt or a retry delay is pending
InFlight == {k \in 1..Len(worker) : worker[k] \in {"attempt", "delay"}}

RECURSIVE SumSizes(_)
SumSizes(cs) == IF cs = <<>> THEN 0 ELSE Head(cs).size + SumSizes(Tail(cs))

IsCompleted(chunk) == chunk.id \in completedChunks

CompletedSize == SumSizes(SelectSeq(chunks, IsCompleted))

\* C1: the active set, and with it the number of chunk operations in flight,
\* never exceeds concurrentChunks.
C1_ActiveWithinBudget ==
  /\ Cardinality(activeChunks) <= config.concurrentChunks
  /\ Cardinality(InFlight) <= config.concurrentChunks

C1_Witness ==
  /\ config.concurrentChunks >= 2
  /\ Cardinality(InFlight) = config.concurrentChunks
  /\ Cardinality(activeChunks) = config.concurrentChunks
  /\ hasAvailableChunks

\* C2 (as claimed): with fair delivery of transport results and timers, every
\* call that planned two or more chunks eventually settles.
C2_EventuallySettles == (InCall /\ Len(chunks) >= 2) ~> Settled

\* C3: when the call settles, nothing is active and every planned chunk is
\* completed or failed.
C3_SettledMeansAllDone ==
  Settled => /\ activeChunks = {}
             /\ completedChunks \cup failedChunks = ChunkIds
             /\ InFlight = {}

C3_Witness ==
  /\ Settled
  /\ Len(chunks) >= 2
  /\ Len(launchLog) = Len(chunks)

\* C4: bytesTransferred is the sum of the sizes of the completed chunks; it
\* never decreases and changes only when one chunk joins completedChunks, by
\* that chunk's size.
C4_BytesStep ==
  /\ bytesTransferred' >= bytesTransferred
  /\ bytesTransferred' # bytesTransferred =>
       \E k \in 1..Len(chunks) :
         /\ chunks[k].id \notin completedChunks
         /\ completedChunks' = completedChunks \cup {chunks[k].id}
         /\ bytesTransferred' = bytesTransferred + chunks[k].size
  /\ completedChunks' # completedChunks => bytesTransferred' # bytesTransferred

C4_BytesAreCompletedSizes ==
  /\ [](bytesTransferred = CompletedSize)
  /\ [][C4_BytesStep]_vars

C4_Witness ==
  /\ bytesTransferred > 0
  /\ \E k \in 1..Len(chunks) :
       /\ chunks[k].id \in completedChunks
       /\ chunks[k].size < config.chunkSize

\* C5: active, completed and failed are pairwise disjoint, and the size of
\* their union never decreases.
C5_Disjoint ==
  /\ activeChunks \cap completedChunks = {}
  /\ activeChunks \cap failedChunks = {}
  /\ completedChunks \cap failedChunks = {}

C5_DisjointAndGrowing ==
  /\ []C5_Disjoint
  /\ [][Cardinality(Tracked') >= Cardinality(Tracked)]_vars

C5_Witness ==
  /\ Cardinality(activeChunks) = 2
  /\ failedChunks # {}
  /\ InCall

\* C6: for 0 <= resumePosition <= totalSize the plan is contiguous, covers
\* exactly [resumePosition, totalSize), every size is end - start with
\* 0 < size <= chunkSize, and every chunk but the last has size chunkSize.
PlanIsPartition(cs, from, to, chunkSize) ==
  /\ \A k \in 1..Len(cs) :
       /\ cs[k].size = cs[k].end - cs[k].start
       /\ 0 < cs[k].size
       /\ cs[k].size <= chunkSize
       /\ k < Len(cs) => cs[k].size = chunkSize
       /\ k > 1 => cs[k].start = cs[k - 1].end
  /\ IF from = to THEN cs = <<>>
     ELSE /\ cs # <<>>
          /\ cs[1].start = from
          /\ cs[Len(cs)].end = to

C6_PlanCoversRange ==
  (op # "none" /\ config.chunkSize > 0 /\ ResumePosition <= fileSize) =>
     PlanIsPartition(chunks, ResumePosition, fileSize, config.chunkSize)

C6_Witness ==
  /\ op # "none"
  /\ ResumePosition > 0
  /\ Len(chunks) >= 2
  /\ chunks[Len(chunks)].size < config.chunkSize

\* C7: every launch takes the lowest-index chunk that is not active, completed
\* or failed, so launches are in strictly ascending index order; completions
\* may come in any order.
C7_LaunchStep ==
  Len(launchLog') > Len(launchLog) =>
    LET i == launchLog'[Len(launchLog')] IN
    /\ Len(launchLog') = Len(launchLog) + 1
    /\ \E k \in 1..Len(chunks) :
         /\ chunks[k].index = i
         /\ IsUntracked(chunks[k])
         /\ chunks[k].id \in activeChunks'
    /\ \A k \in 1..Len(chunks) :
         chunks[k].index < i =>
           /\ ~IsUntracked(chunks[k])
           /\ \E n \in 1..Len(launchLog) : launchLog[n] = chunks[k].index
    /\ \A n \in 1..Len(launchLog) : launchLog[n] < i

C7_LaunchAscending == [][C7_LaunchStep]_vars

C7_Witness ==
  /\ Len(launchLog) >= 2
  /\ \E j, k \in 1..Len(chunks) :
       /\ chunks[j].index < chunks[k].index
       /\ chunks[j].id \in activeChunks
       /\ chunks[k].id \in completedChunks

\* C8 (as claimed): a download that resolves returns exactly the source bytes
\* of the planned range, in order.
PlannedBytes ==
  IF ResumePosition < fileSize THEN SourceBytes(ResumePosition, fileSize) ELSE <<>>

TransportFaithful ==
  \A k \in 1..Len(job) :
     job[k].value.kind = "data" => job[k].value = ChunkResult(chunks[k])

C8_DownloadEqualsSource ==
  (pc = "resolved" /\ op = "download" /\ TransportFaithful) =>
     returned = PlannedBytes

\* C9 (as claimed): once a chunk has failed for good, every other chunk is
\* still launched, and the call settles with every chunk that it launched and
\* whose transport attempts never failed in completedChunks.
C9_FailureIsLocal ==
  (InCall /\ failedChunks # {}) ~>
     (/\ Settled
      /\ \A k \in 1..Len(chunks) :
           /\ ~IsUntracked(chunks[k])
           /\ (worker[k] # "none" /\ chunks[k].retries = 0
                 /\ config.retryAttempts > 0) =>
                 chunks[k].id \in completedChunks)

Idle == pc \in {"idle", "resolved", "rejected"}

\* C11 (as claimed): with retryAttempts = 2 a chunk that has failed twice gets
\* a third attempt: it is waiting, attempting, or completed, never failed.
C11_ThirdAttemptAtTwo ==
  \A k \in 1..Len(job) :
     (config.retryAttempts = 2 /\ job[k].failed = 2) =>
        \/ worker[k] \in {"delay", "attempt", "fulfilled"}
        \/ worker[k] = "settled" /\ chunks[k].id \in completedChunks

\* C11 (amended): with retryAttempts = 3 a chunk that has failed twice gets a
\* third attempt; if that succeeds it ends completed with retries = 2; a call
\* none of whose chunks rejected resolves without an error.
C11_ThirdAttemptAtThree ==
  /\ \A k \in 1..Len(job) :
       (config.retryAttempts = 3 /\ job[k].failed = 2) =>
          /\ worker[k] \in {"delay", "attempt", "fulfilled", "settled"}
          /\ worker[k] = "settled" =>
               /\ chunks[k].id \in completedChunks
               /\ chunks[k].id \notin failedChunks
               /\ chunks[k].retries = 2
  /\ (Settled /\ \A k \in 1..Len(job) :
                    worker[k] = "settled" /\ job[k].error = NoReason) =>
        (pc = "resolved" /\ thrown = NoError)

C11_Witness ==
  /\ config.retryAttempts = 3
  /\ pc = "resolved"
  /\ \E k \in 1..Len(job) :
       /\ job[k].failed = 2
       /\ job[k].started = 3
       /\ chunks[k].id \in completedChunks

\* C12: retries equals the number of failed attempts; each failed attempt adds
\* exactly one; after it the worker waits to retry if retries < retryAttempts
\* and otherwise rejects with the error of that attempt; a wait ends in a new
\* attempt.
C12_RetryStep ==
  (~Idle /\ Len(job') = Len(job)) =>
    \A k \in 1..Len(job) :
       /\ chunks'[k].retries # chunks[k].retries =>
            job'[k].failed = job[k].failed + 1
       /\ job'[k].failed # job[k].failed =>
            /\ job'[k].failed = job[k].failed + 1
            /\ worker[k] = "attempt"
            /\ chunks'[k].retries = chunks[k].retries + 1
            /\ IF chunks'[k].retries < config.retryAttempts
               THEN /\ worker'[k] = "delay"
                    /\ job'[k].error = NoReason
               ELSE /\ worker'[k] = "rejected"
                    /\ job'[k].error.attempt = job[k].started
                    /\ job'[k].error.kind \in
                         {"Upload failed", "Download failed", "Hash mismatch"}
       /\ (worker[k] = "delay" /\ worker'[k] # "delay") =>
            /\ worker'[k] = "attempt"
            /\ job'[k].started = job[k].started + 1

C12_RetryCountsFailures ==
  /\ [](\A k \in 1..Len(job) : chunks[k].retries = job[k].failed)
  /\ [][C12_RetryStep]_vars

C12_Witness ==
  \E k \in 1..Len(job) :
     /\ job[k].failed = 2
     /\ job[k].started = 2
     /\ worker[k] = "rejected"
     /\ job[k].error.attempt = 2
     /\ config.retryAttempts = 2

\* C13 (as claimed): a call with chunkSize <= 0 ends at once with
\* InvalidConfigurationError and plans nothing.
C13_NonPositiveChunkSizeRejected ==
  (op # "none" /\ config.chunkSize <= 0) =>
     /\ pc = "rejected"
     /\ thrown.kind = "InvalidConfigurationError"
     /\ chunks = <<>>

\* C14 (as claimed): a call with resumePosition > totalSize fails with
\* InvalidConfigurationError; it does not succeed with zero chunks.
C14_ResumeBeyondEndRejected ==
  (Settled /\ config.chunkSize > 0 /\ ResumePosition > fileSize) =>
     /\ pc = "rejected"
     /\ thrown.kind = "InvalidConfigurationError"

\* C15: with resumePosition = totalSize nothing is planned, nothing is
\* launched or awaited, bytesTransferred is 0 and the call resolves.
C15_ResumeAtEndCompletes ==
  (op # "none" /\ ResumePosition = fileSize) =>
     /\ chunks = <<>>
     /\ launchLog = <<>>
     /\ bytesTransferred = 0
     /\ pc \in {"loop", "resolved"}
     /\ thrown = NoError
     /\ returned = <<>>

C15_Witness ==
  /\ pc = "resolved"
  /\ op = "download"
  /\ fileSize > 0
  /\ ResumePosition = fileSize
  /\ config.chunkSize > 0

\* C16: in every plan the planner yields, each id is made of (start, end) only
\* and ids are pairwise distinct; planning again with the same inputs yields
\* the same ids, indices and ranges.
PlanComplete == op # "none" /\ pc # "planning"

Ranges(cs) ==
  [k \in 1..Len(cs) |->
     [id |-> cs[k].id, index |-> cs[k].index, start |-> cs[k].start,
      end |-> cs[k].end, size |-> cs[k].size]]

C16_IdsWellFormed ==
  PlanComplete =>
    \A j, k \in 1..Len(chunks) :
       /\ chunks[k].id = <<"chunk", chunks[k].start, chunks[k].end>>
       /\ j # k => chunks[j].id # chunks[k].id

C16_Replan ==
  (PlanComplete /\ Idle /\ pc' = "loop") => Ranges(chunks') = Ranges(chunks)

C16_PlanStable == []C16_IdsWellFormed /\ [][C16_Replan]_vars

C16_Witness ==
  /\ pc = "loop"
  /\ launchLog = <<>>
  /\ Len(chunks) >= 2
  /\ failedChunks = ChunkIds

\* C17 (as claimed): every call starts with empty active, completed and failed
\* sets and bytesTransferred = 0.
C17_CallStartsFresh ==
  [][(Idle /\ pc' \notin {"idle", "resolved", "rejected"}) =>
       /\ activeChunks' = {}
       /\ completedChunks' = {}
       /\ failedChunks' = {}
       /\ bytesTransferred' = 0]_vars

\* C18 (as claimed): a download resolves with an artifact only if every
\* planned chunk is completed and its slot was written by this call.
C18_ArtifactOnlyWhenWritten ==
  (pc = "resolved" /\ op = "download") =>
     \A k \in 1..Len(chunks) :
        /\ chunks[k].id \in completedChunks
        /\ worker[k] = "settled"

\* C19 (as claimed): the scheduler starts another round only when some worker
\* has settled that no earlier round has seen.
C19_RoundNeedsNewSettlement ==
  [][(pc = "await" /\ pc' = "loop") =>
       \E k \in 1..Len(worker) : worker[k] = "settled" /\ k \notin handled]_vars

\* the digest a server can supply for the range it was asked for
ServerDigest(chunk) == calculateHash(RangeResponse(RangeHeader(chunk)))

C22_RequestCarriesChunkMetadata ==
  \A k \in 1..Len(job) :
     job[k].started > 0 =>
       IF op = "download"
       THEN job[k].request["Range"] = RangeHeader(chunks[k])
       ELSE /\ job[k].request["X-Chunk-Index"] = chunks[k].index
            /\ job[k].request["X-Chunk-Total"] = Len(chunks)

\* C23 (as claimed): a snapshot taken when now - startTime <= 0 reports
\* speed = 0, whatever bytesTransferred is.
C23_NoElapsedTimeMeansZeroSpeed ==
  (progress.kind = "progress" /\ now - startTime <= 0) =>
     (progress.speed.kind = "number" /\ progress.speed.num = 0)

\* C24 (as claimed): estimatedTimeRemaining is remaining / speed when
\* speed > 0, and infinite or undefined, never a finite number, otherwise.
C24_EtaIsQuotientOrUndefined ==
  progress.kind = "progress" =>
     LET speed == progress.speed
         eta == progress.estimatedTimeRemaining
         remaining == progress.totalBytes - progress.bytesTransferred
     IN IF IsPositive(speed)
        THEN /\ eta.kind = "number"
             /\ eta.num * speed.num = remaining * speed.den * eta.den
        ELSE eta.kind \in {"Infinity", "undefined"}

\* C25: a getProgress() call changes nothing of the transfer, can be made
\* while chunks are in flight, and returns the current bytesTransferred,
\* total = number of planned chunks and completed + failed + inProgress <= total.
C25_ProgressStep ==
  progress' # progress =>
    /\ UNCHANGED transferVars
    /\ progress'.bytesTransferred = bytesTransferred
    /\ progress'.totalBytes = fileSize
    /\ progress'.chunks.total = Len(chunks)
    /\ progress'.chunks.completed + progress'.chunks.failed
          + progress'.chunks.inProgress <= progress'.chunks.total

C25_ProgressIsDerived == [][C25_ProgressStep]_vars

C25_Witness ==
  /\ pc = "await"
  /\ progress.kind = "progress"
  /\ progress.chunks.inProgress >= 1
  /\ progress.chunks.completed >= 1
  /\ progress.chunks = ChunkCounts

\* C26: a message passed to send() while the socket is not open is appended
\* to the queue and not sent; when the client's socket opens, the whole queue
\* is sent in queue order and the queue is left empty; no message is lost or
\* sent twice, and the messages reach the wire in the order they were passed
\* to send(), queued ones before any passed later.
WireMessages == [i \in 1..Len(wire) |-> wire[i].msg]

C26_NothingLostOrReordered ==
  WireMessages \o messageQueue = [i \in 1..submitted |-> i]

C26_QueueStep ==
  /\ (submitted' # submitted /\ ~WsIsOpen) =>
        /\ messageQueue' = Append(messageQueue, submitted')
        /\ wire' = wire
  /\ (ws # 0 /\ sockets[ws].readyState # "OPEN"
         /\ sockets'[ws].readyState = "OPEN") =>
        /\ messageQueue' = <<>>
        /\ WireMessages' = WireMessages \o messageQueue
        /\ \A i \in (Len(wire) + 1)..Len(wire') : wire'[i].socket = ws

C27_AtMaxStep ==
  wsState.reconnectAttempts >= wsConfig.maxReconnectAttempts =>
    /\ wsReconnectTimer' => wsReconnectTimer
    /\ wsState'.reconnectAttempts \in {wsState.reconnectAttempts, 0}

C27_ReconnectAttemptsCapped ==
  /\ [](wsState.reconnectAttempts <= wsConfig.maxReconnectAttempts)
  /\ [][C27_AtMaxStep]_vars

\* C28: reconnectAttempts never exceeds maxReconnectAttempts; while it is at
\* the maximum the client is not connected, and no step schedules a
\* reconnection or raises the counter: it changes only by the reset of an open.
C28_AtMaxStep ==
  sseState.reconnectAttempts >= sseConfig.maxReconnectAttempts =>
    /\ sseReconnectTimer' => sseReconnectTimer
    /\ sseState'.reconnectAttempts \in {sseState.reconnectAttempts, 0}

C28_AtMost ==
  /\ sseState.reconnectAttempts <= sseConfig.maxReconnectAttempts
  /\ sseState.reconnectAttempts = sseConfig.maxReconnectAttempts =>
       ~sseState.isConnected

C28_SseReconnectsCapped == []C28_AtMost /\ [][C28_AtMaxStep]_vars

C28_Witness ==
  /\ sseState.reconnectAttempts = sseConfig.maxReconnectAttempts
  /\ sseConfig.maxReconnectAttempts >= 2
  /\ ~sseReconnectTimer
  /\ \E s \in 1..Len(sources) :
       sources[s].retry /\ sources[s].readyState = "CLOSED" /\ eventSource = s

\* C29: a mock registered with a finite times = n serves at most n requests.
C29_ServesAtMostTimes ==
  \A id \in 1..Len(registered) :
    registered[id].times # Undefined => served[id] <= registered[id].times.num

\* C30: within one call the scheduler launches every chunk at most once. The
\* chunk it launches is neither active nor completed nor failed and has no
\* worker yet; the completed and failed sets only grow; and no attempt is
\* started for a chunk that is completed or failed.
C30_LaunchedOnce ==
  \A m, n \in 1..Len(launchLog) : m # n => launchLog[m] # launchLog[n]

C30_LaunchStep ==
  /\ Len(launchLog') > Len(launchLog) =>
       \E k \in 1..Len(chunks) :
         /\ launchLog' = Append(launchLog, chunks[k].index)
         /\ IsUntracked(chunks[k])
         /\ worker[k] = "none"
         /\ job[k].started = 0
  /\ completedChunks \subseteq completedChunks'
  /\ failedChunks \subseteq failedChunks'
  /\ \A k \in 1..Len(chunks) :
       (chunks[k].id \in completedChunks \cup failedChunks
          /\ k \in DOMAIN job')
         => job'[k].started <= job[k].started

C30_EachChunkLaunchedOnce == []C30_LaunchedOnce /\ [][C30_LaunchStep]_vars

\* a chunk was launched, has failed, and a later chunk was launched after it
C30_Witness ==
  /\ InCall
  /\ config.concurrentChunks = 1
  /\ Len(launchLog) >= 2
  /\ \E k \in 1..Len(chunks) :
       /\ chunks[k].index = launchLog[1]
       /\ chunks[k].id \in failedChunks
       /\ job[k].started >= 1

\* ------------------------------------------------- properties, C31 .. C39
\* C31: a worker reports terminal failure only after the transport operation
\* of its chunk was attempted at least once, whatever retryAttempts is.
C31_AttemptedBeforeFailure ==
  \A k \in 1..Len(chunks) :
    (k \in DOMAIN worker /\ worker[k] = "rejected") => job[k].started >= 1

\* C32: every chunk's index addresses its own slot of the result array, whose
\* length is the number of planned chunks: 0 <= index < chunk count, and no
\* two chunks share an index (plans with a positive chunkSize).
C32_IndexAddressesOwnSlot ==
  config.chunkSize > 0 =>
    /\ \A k \in 1..Len(chunks) : chunks[k].index \in 0..(Len(chunks) - 1)
    /\ \A j, k \in 1..Len(chunks) :
         j # k => chunks[j].index # chunks[k].index

\* C33: upload() plans chunks covering the whole payload [0, fileSize),
\* whatever resumePosition the configuration carries.
C33_UploadPlansWholePayload ==
  (op = "upload" /\ pc \notin {"idle", "planning"} /\ config.chunkSize > 0
     /\ fileSize > 0)
    => /\ Len(chunks) >= 1
       /\ chunks[1].start = 0
       /\ chunks[Len(chunks)].end = fileSize

\* C34: this.ws is null exactly from close() (or construction) until the next
\* connect().  In that period the client is not connected and no reconnection
\* is under way: no reconnect timer is pending.
C34_ClosedStaysClosed ==
  ws = 0 =>
    /\ ~wsState.isConnected
    /\ ~wsState.isReconnecting
    /\ ~wsReconnectTimer

\* C39: after each round of the scheduler loop the promises in activePromises
\* are exactly those of the chunks in activeChunks, so the list is never
\* longer than concurrentChunks.
C39_TrackedAreActive ==
  pc = "loop" =>
    /\ {chunks[activePromises[i]].id : i \in 1..Len(activePromises)}
         = activeChunks
    /\ Len(activePromises) <= config.concurrentChunks

\* C35: while the breaker is open no action is invoked; the breaker leaves
\* open only by a reset timer firing, which makes it half-open; and at most
\* one reset timer is pending at any time.
C35_OneResetTimer == Cardinality(resetTimers) <= 1

C35_OpenStep ==
  circuitState = "open" =>
    /\ totalRequests' = totalRequests
    /\ inFlight' <= inFlight
    /\ circuitState' # "open" =>
         /\ circuitState' = "half-open"
         /\ \E t \in resetTimers : resetTimers' = resetTimers \ {t}

C35_OpenRejectsUntilTimer == []C35_OneResetTimer /\ [][C35_OpenStep]_vars

\* the breaker has tripped for the second time, rejects a call while an
\* earlier action is still pending, and its reset timer is pending
C35_Witness ==
  /\ circuitState = "open"
  /\ trips >= 2
  /\ executed = "Circuit breaker is open"
  /\ inFlight >= 1
  /\ Cardinality(resetTimers) = 1

\* C36: in one half-open period at most maxHalfOpenRequests actions are
\* invoked; a failure observed while half-open opens the breaker; and the
\* breaker becomes closed only by a success observed while half-open, with
\* failures = 0.
C36_HalfOpenAdmitsAtMost ==
  circuitState = "half-open" => admitted <= breakerConfig.maxHalfOpenRequests

C36_HalfOpenStep ==
  /\ (circuitState = "half-open" /\ failedRequests' > failedRequests)
       => circuitState' = "open"
  /\ (circuitState # "closed" /\ circuitState' = "closed")
       => /\ circuitState = "half-open"
          /\ successfulRequests' = successfulRequests + 1
          /\ failures' = 0

C36_HalfOpenProbes == []C36_HalfOpenAdmitsAtMost /\ [][C36_HalfOpenStep]_vars

\* a half-open breaker that has admitted two concurrent actions and turned
\* the next call away
C36_Witness ==
  /\ circuitState = "half-open"
  /\ breakerConfig.maxHalfOpenRequests >= 2
  /\ admitted = breakerConfig.maxHalfOpenRequests
  /\ inFlight >= 2
  /\ executed = "Too many requests in half-open state"

\* C37: never more than maxConcurrent items are running, and every add()
\* call eventually settles, also one that is waiting when clear() is called.
C37_RunningWithinLimit == running <= maxConcurrent

C37_EveryAddSettles ==
  /\ []C37_RunningWithinLimit
  /\ \A id \in 1..MaxAdds :
       (id <= Len(items)) ~> (id <= Len(items) /\ items[id] = "settled")

\* C38: a request whose action is executed has consumed exactly one token,
\* whether it got the token directly or after being queued.
C38_OneTokenPerRequest ==
  \A r \in 1..Len(requests) :
    requests[r].status \in {"executing", "settled"} => requests[r].spent = 1

====
